---- MODULE Spec2Model ----
(***************************************************************************)
(* A model of geojson_merger.py: the pure stages (validate_geojson,        *)
(* filter_geojson, validate_csv_coordinates, csv_to_geojson,               *)
(* process_geometries) as operators computed the way the code computes     *)
(* them, and main() as one action per Streamlit run over the session       *)
(* state.  An exception that leaves a function is an outcome of kind       *)
(* "raised"; Python's None result is an outcome of kind "none".            *)
(***************************************************************************)
EXTENDS Integers, Sequences, FiniteSets, TLC

VARIABLES
    res,        \* the last stage call: its name, its arguments as passed, its outcome
    df,         \* the caller's DataFrame object as it is after the last CSV call
    session,    \* st.session_state: current_geojson (and its origin), filters
    run         \* what the last run of main() did: upload, display, combination

vars == <<res, df, session, run>>

(***************************************************************************)
(* Bounds of the model.                                                    *)
(***************************************************************************)
MaxFeatures == 2    \* features per collection handed to filter / validate
MaxRows == 2        \* rows per tabular dataset
MaxGeoms == 2       \* features per collection handed to process_geometries
GridLen == 3        \* unit cells of the strip polygons and points live on

(***************************************************************************)
(* Python / JSON scalar values: a number, a string, or null (None / NaN).  *)
(***************************************************************************)
Num(n) == [t |-> "num", n |-> n, s |-> ""]
Str(x) == [t |-> "str", n |-> 0, s |-> x]
Null == [t |-> "null", n |-> 0, s |-> ""]

\* str(v): the text of a string is itself, None prints as "None", a number
\* prints its decimal digits.
PyStr(v) ==
    CASE v.t = "str" -> v.s
      [] v.t = "null" -> "None"
      [] OTHER -> ToString(v.n)

\* pd.notnull(v)
notnull(v) == v.t # "null"

(***************************************************************************)
(* Outcomes of a call.                                                     *)
(***************************************************************************)
NoVal == <<>>
Returned(v) == [kind |-> "value", exc |-> "", val |-> v]
ReturnedNone == [kind |-> "none", exc |-> "", val |-> NoVal]
Raised(e) == [kind |-> "raised", exc |-> e, val |-> NoVal]

(***************************************************************************)
(* Features.  'properties' is a dict (pk = "dict", props its mapping), is  *)
(* null (pk = "null") or is absent (pk = "absent").  A geometry is a Point  *)
(* with its coordinate pair, a Polygon covering a set of unit cells of a   *)
(* strip (cell c is the unit square centred at (c, 0)), or a payload       *)
(* shape() cannot parse.                                                   *)
(***************************************************************************)
EmptyDict == [k \in {} |-> Null]

Point(x, y) == [type |-> "Point", coordinates |-> <<x, y>>, cells |-> {}]
Polygon(cells) == [type |-> "Polygon", coordinates |-> <<>>, cells |-> cells]
MalformedGeometry == [type |-> "Malformed", coordinates |-> <<>>, cells |-> {}]

Feature(g, pk, props) ==
    [type |-> "Feature", geometry |-> g, pk |-> pk, props |-> props]

FeatureCollection(fs) == [type |-> "FeatureCollection", features |-> fs]

\* all sequences over S of length at most n
RECURSIVE SeqsUpTo(_, _)
SeqsUpTo(S, n) ==
    IF n = 0 THEN {<<>>}
    ELSE LET shorter == SeqsUpTo(S, n - 1)
         IN shorter \cup {Append(q, e) : q \in {p \in shorter : Len(p) = n - 1}, e \in S}

\* all mappings from a subset of K to V
Dicts(K, V) == UNION {[D -> V] : D \in SUBSET K}

(***************************************************************************)
(* filter_geojson (lines 44-64).                                           *)
(***************************************************************************)
\* One pass of the inner loop (lines 52-57) over the filter items still to
\* visit: "pass", "fail", or the exception the test on line 55 raises.
\* feature['properties'] raises KeyError when the key is absent;
\* `prop not in None` raises TypeError.  Items with an empty value list are
\* skipped before 'properties' is touched (lines 53-54).
\* a filter that lets a feature without the property through
RECURSIVE feature_passes_lenient(_, _, _)
feature_passes_lenient(feature, filters, todo) ==
    IF todo = {} THEN "pass"
    ELSE LET prop == CHOOSE p \in todo : TRUE
             values == filters[prop]
         IN IF values = {} THEN feature_passes_lenient(feature, filters, todo \ {prop})
            ELSE IF feature.pk = "absent" THEN "KeyError"
            ELSE IF feature.pk = "null" THEN "TypeError"
            ELSE IF prop \in DOMAIN feature.props
                    /\ PyStr(feature.props[prop]) \notin values
                 THEN "fail"
            ELSE feature_passes_lenient(feature, filters, todo \ {prop})

RECURSIVE feature_passes(_, _, _)
feature_passes(feature, filters, todo) ==
    IF todo = {} THEN "pass"
    ELSE LET prop == CHOOSE p \in todo : TRUE
             values == filters[prop]
         IN IF values = {} THEN feature_passes(feature, filters, todo \ {prop})
            ELSE IF feature.pk = "absent" THEN "KeyError"
            ELSE IF feature.pk = "null" THEN "TypeError"
            ELSE IF prop \notin DOMAIN feature.props
                    \/ PyStr(feature.props[prop]) \notin values
                 THEN "fail"
            ELSE feature_passes(feature, filters, todo \ {prop})

\* The outer loop (lines 49-59): the features kept so far, or the exception.
RECURSIVE filter_loop(_, _, _, _)
filter_loop(features, filters, i, kept) ==
    IF i > Len(features) THEN Returned(FeatureCollection(kept))
    ELSE LET r == feature_passes(features[i], filters, DOMAIN filters)
         IN CASE r = "pass" -> filter_loop(features, filters, i + 1, Append(kept, features[i]))
              [] r = "fail" -> filter_loop(features, filters, i + 1, kept)
              [] OTHER -> Raised(r)

\* no filters taken to mean nothing selected
filter_geojson_nothing(geojson_data, filters) ==
    IF DOMAIN filters = {} THEN Returned(FeatureCollection(<<>>))
    ELSE filter_loop(geojson_data.features, filters, 1, <<>>)

filter_geojson(geojson_data, filters) ==
    IF DOMAIN filters = {} THEN Returned(geojson_data)
    ELSE filter_loop(geojson_data.features, filters, 1, <<>>)

\* line 47 returns the argument object itself, line 61 a new dict
filter_returns_argument(filters) == DOMAIN filters = {}

(***************************************************************************)
(* validate_geojson (lines 66-84).  A document is a Python value: py is    *)
(* its type.  For a str, text is what json.loads makes of it ("invalid",   *)
(* or the type of the parsed value) and the other fields describe the      *)
(* parsed value.  hasType / hasFeatures are the results of `'type' in v`   *)
(* and `'features' in v` on a container (key of a dict, element of a list, *)
(* substring of a str).                                                    *)
(***************************************************************************)
Document(py, text, hasType, hasFeatures, type, features) ==
    [py |-> py, text |-> text, hasType |-> hasType, hasFeatures |-> hasFeatures,
     type |-> type, features |-> features]

MsgMissing == "Invalid GeoJSON structure: missing required fields"
MsgRootType == "Invalid GeoJSON: root type must be 'FeatureCollection'"
MsgNoFeatures == "GeoJSON contains no features"
MsgValid == "Valid GeoJSON"
\* line 84: f"Invalid GeoJSON: {str(e)}"
MsgException(e) == "Invalid GeoJSON: " \o e

\* str(e) of the TypeError of `'type' in v` on an int or None (line 73), of
\* v['type'] on a list or str (line 76), and of json.loads on a value that
\* is no text (line 70)
NotIterable(py) == "argument of type '" \o py \o "' is not iterable"
BadIndex(py) ==
    IF py = "list" THEN "list indices must be integers or slices, not str"
    ELSE "string indices must be integers, not 'str'"
NotText(py) == "the JSON object must be str, bytes or bytearray, not " \o py
\* str(e) of the JSONDecodeError of text that is no JSON
NotJsonText == "Expecting value: line 1 column 1 (char 0)"

\* `not x` for a list
falsy(features) == Len(features) = 0

\* the checks with the emptiness test ahead of the root type test
validate_fields_reordered(py, v) ==
    IF py \in {"int", "NoneType"}
    THEN <<FALSE, MsgException(NotIterable(py))>>
    ELSE IF ~(v.hasType /\ v.hasFeatures) THEN <<FALSE, MsgMissing>>
    ELSE IF py \in {"list", "str"}
    THEN <<FALSE, MsgException(BadIndex(py))>>
    ELSE IF falsy(v.features) THEN <<FALSE, MsgNoFeatures>>
    ELSE IF v.type # "FeatureCollection" THEN <<FALSE, MsgRootType>>
    ELSE <<TRUE, MsgValid>>

\* lines 72-82 on the value v of Python type py
validate_fields(py, v) ==
    IF py \in {"int", "NoneType"}
    THEN <<FALSE, MsgException(NotIterable(py))>>
    ELSE IF ~(v.hasType /\ v.hasFeatures) THEN <<FALSE, MsgMissing>>
    ELSE IF py \in {"list", "str"}
    THEN <<FALSE, MsgException(BadIndex(py))>>
    ELSE IF v.type # "FeatureCollection" THEN <<FALSE, MsgRootType>>
    ELSE IF falsy(v.features) THEN <<FALSE, MsgNoFeatures>>
    ELSE <<TRUE, MsgValid>>

\* a non-mapping reported as a mapping without the required keys
validate_geojson_no_parse(geojson_data) ==
    IF geojson_data.py = "dict" THEN validate_fields("dict", geojson_data)
    ELSE <<FALSE, MsgMissing>>

validate_geojson(geojson_data) ==
    IF geojson_data.py = "dict" THEN validate_fields("dict", geojson_data)
    ELSE IF geojson_data.py # "str"
    THEN <<FALSE, MsgException(NotText(geojson_data.py))>>
    ELSE IF geojson_data.text = "invalid" THEN <<FALSE, MsgException(NotJsonText)>>
    ELSE validate_fields(geojson_data.text, geojson_data)

(***************************************************************************)
(* Inputs of the filter and validation stages.                             *)
(***************************************************************************)
PropKeys == {"category", "kind"}
PropValues == {Str("A"), Str("B"), Null}
FilterStrings == {"A", "None"}
NoGeometry == Point(1, 0)

FilterFeatures ==
    {Feature(NoGeometry, "dict", p) : p \in Dicts(PropKeys, PropValues)}
        \cup {Feature(NoGeometry, "null", EmptyDict), Feature(NoGeometry, "absent", EmptyDict)}

FilterCollections == {FeatureCollection(fs) : fs \in SeqsUpTo(FilterFeatures, MaxFeatures)}
FilterSpecs == Dicts(PropKeys, SUBSET FilterStrings)

WellFormed(feature) == feature.pk = "dict"

Documents ==
    {Document("dict", "", ht, hf, ty, fs) :
        ht \in BOOLEAN, hf \in BOOLEAN, ty \in {"FeatureCollection", "Feature"},
        fs \in SeqsUpTo({Feature(NoGeometry, "dict", EmptyDict)}, MaxFeatures)}
    \cup {Document(py, "", FALSE, FALSE, "", <<>>) : py \in {"list", "int", "NoneType"}}
    \cup {Document("str", "invalid", FALSE, FALSE, "", <<>>)}
    \cup {Document("str", "dict", ht, hf, ty, fs) :
        ht \in BOOLEAN, hf \in BOOLEAN, ty \in {"FeatureCollection", "Feature"},
        fs \in SeqsUpTo({Feature(NoGeometry, "dict", EmptyDict)}, MaxFeatures)}
    \cup {Document("str", py, ht, hf, "", <<>>) :
        py \in {"list", "str"}, ht \in BOOLEAN, hf \in BOOLEAN}
    \cup {Document("str", py, FALSE, FALSE, "", <<>>) : py \in {"int", "NoneType"}}

(***************************************************************************)
(* Tabular datasets: the column names and the rows, each row a mapping     *)
(* from column name to cell value.                                         *)
(***************************************************************************)
DataFrame(columns, rows) == [columns |-> columns, rows |-> rows]

\* pd.to_numeric(errors='coerce') on one cell: a number stays, the text of
\* a numeral becomes its number, anything else becomes NaN.
NumberRange == -200 .. 200
NumeralOf == [n \in NumberRange |-> ToString(n)]
Numerals == {NumeralOf[n] : n \in NumberRange}
NumeralValue == [s \in Numerals |-> CHOOSE n \in NumberRange : NumeralOf[n] = s]
to_numeric(v) ==
    CASE v.t = "num" -> v
      [] v.t = "str" /\ v.s \in Numerals -> Num(NumeralValue[v.s])
      [] OTHER -> Null

\* the Series pd.to_numeric(df[col], errors='coerce')
coerced_column(d, col) == [i \in 1 .. Len(d.rows) |-> to_numeric(d.rows[i][col])]

\* Series.isna().all(): true of the empty Series
isna_all(series) == \A i \in DOMAIN series : ~notnull(series[i])

\* ((lo <= series) & (series <= hi)).all(): a comparison with NaN is False
in_range_all(series, lo, hi) ==
    \A i \in DOMAIN series :
        notnull(series[i]) /\ lo <= series[i].n /\ series[i].n <= hi

MsgColumns == "Selected columns not found in CSV"
MsgNumeric == "Selected columns do not contain valid numeric data"
MsgLatitude == "Latitude values must be between -90 and 90"
MsgLongitude == "Longitude values must be between -180 and 180"
MsgCoordinates == "Valid coordinates"

(***************************************************************************)
(* validate_csv_coordinates (lines 86-106).                                *)
(***************************************************************************)
validate_csv_coordinates(d, lat_col, lon_col) ==
    IF lat_col \notin d.columns \/ lon_col \notin d.columns THEN <<FALSE, MsgColumns>>
    ELSE LET lats == coerced_column(d, lat_col)
             lons == coerced_column(d, lon_col)
         IN IF isna_all(lats) \/ isna_all(lons) THEN <<FALSE, MsgNumeric>>
            ELSE IF ~in_range_all(lats, -90, 90) THEN <<FALSE, MsgLatitude>>
            ELSE IF ~in_range_all(lons, -180, 180) THEN <<FALSE, MsgLongitude>>
            ELSE <<TRUE, MsgCoordinates>>

(***************************************************************************)
(* csv_to_geojson (lines 108-142).                                         *)
(***************************************************************************)
\* df[col] = pd.to_numeric(df[col], errors='coerce'): the assignment writes
\* the coerced Series into the DataFrame object the caller passed.
assign_numeric(d, col) ==
    DataFrame(d.columns,
              [i \in 1 .. Len(d.rows) |-> [d.rows[i] EXCEPT ![col] = to_numeric(@)]])

\* df.dropna(subset=[lat_col, lon_col]): a new frame, rows kept in order
RECURSIVE dropna(_, _, _)
dropna(rows, lat_col, lon_col) ==
    IF rows = <<>> THEN <<>>
    ELSE LET rest == dropna(Tail(rows), lat_col, lon_col)
         IN IF notnull(Head(rows)[lat_col]) /\ notnull(Head(rows)[lon_col])
            THEN <<Head(rows)>> \o rest
            ELSE rest

\* the point built latitude first
row_feature_swapped(row, lat_col, lon_col) ==
    LET others == DOMAIN row \ {lat_col, lon_col}
        properties == [k \in others |-> IF notnull(row[k]) THEN Str(PyStr(row[k])) ELSE Null]
    IN Feature(Point(row[lat_col].n, row[lon_col].n), "dict", properties)

\* lines 119-128 for one row
row_feature(row, lat_col, lon_col) ==
    LET others == DOMAIN row \ {lat_col, lon_col}
        properties == [k \in others |-> IF notnull(row[k]) THEN Str(PyStr(row[k])) ELSE Null]
    IN Feature(Point(row[lon_col].n, row[lat_col].n), "dict", properties)

\* the DataFrame object of the caller after the call: line 112 raises
\* KeyError before anything is written, line 113 after the latitude column
\* has been written.
csv_frame_after(d, lat_col, lon_col) ==
    IF lat_col \notin d.columns THEN d
    ELSE IF lon_col \notin d.columns THEN assign_numeric(d, lat_col)
    ELSE assign_numeric(assign_numeric(d, lat_col), lon_col)

csv_to_geojson(d, lat_col, lon_col) ==
    IF lat_col \notin d.columns \/ lon_col \notin d.columns THEN Raised("KeyError")
    ELSE LET numeric == csv_frame_after(d, lat_col, lon_col)
             kept == dropna(numeric.rows, lat_col, lon_col)
             features == [i \in 1 .. Len(kept) |-> row_feature(kept[i], lat_col, lon_col)]
         IN IF Len(features) = 0 THEN ReturnedNone
            ELSE Returned(FeatureCollection(features))

(***************************************************************************)
(* Inputs of the CSV stages.                                               *)
(***************************************************************************)
Columns == {"lat", "lon", "name"}
CoordinateCells == {Str("45"), Num(181), Str("abc")}
NameCells == {Str("X"), Null}
Rows == {[c \in Columns |-> IF c = "lat" THEN a ELSE IF c = "lon" THEN o ELSE m] :
            a \in CoordinateCells, o \in CoordinateCells, m \in NameCells}
DataFrames == {DataFrame(Columns, rows) : rows \in SeqsUpTo(Rows, MaxRows)}
ColumnChoices == Columns \cup {"elevation"}

(***************************************************************************)
(* Geometric objects (shapely): the polygons of the object, each the set   *)
(* of cells it covers, and its points.                                     *)
(***************************************************************************)
Geometry(geom_type, polygons, points) ==
    [geom_type |-> geom_type, polygons |-> polygons, points |-> points]

\* shape(feature['geometry']); a payload it cannot parse raises
shape_raises(g) == g.type \notin {"Point", "Polygon"}
shape(g) ==
    IF g.type = "Point" THEN Geometry("Point", {}, {g.coordinates})
    ELSE Geometry("Polygon", {g.cells}, {})

\* the maximal run of covered cells around cell c: cells that share an edge
\* dissolve into one polygon
Component(c, covered) ==
    {d \in covered : \A e \in 1 .. GridLen :
        ((c <= e /\ e <= d) \/ (d <= e /\ e <= c)) => e \in covered}

InCell(pt, c) == pt[1] = c /\ pt[2] = 0

\* unary_union(geometries): the region covered by at least one of them, as
\* the simplest geometry type that holds it.  Overlapping and adjacent
\* polygons merge, a point inside a polygon is absorbed.
unary_union(geometries) ==
    LET covered == UNION {UNION g.polygons : g \in geometries}
        polygons == {Component(c, covered) : c \in covered}
        points == {pt \in UNION {g.points : g \in geometries} :
                      ~\E c \in covered : InCell(pt, c)}
        geom_type ==
            CASE polygons = {} /\ points = {} -> "GeometryCollection"
              [] polygons = {} /\ Cardinality(points) = 1 -> "Point"
              [] polygons = {} -> "MultiPoint"
              [] points = {} /\ Cardinality(polygons) = 1 -> "Polygon"
              [] points = {} -> "MultiPolygon"
              [] OTHER -> "GeometryCollection"
    IN Geometry(geom_type, polygons, points)

\* MultiPolygon([polygon])
MultiPolygon(members) == Geometry("MultiPolygon", UNION {m.polygons : m \in members}, {})

(***************************************************************************)
(* process_geometries (lines 144-165).  The collections of the model all   *)
(* carry a 'features' key, so the test on line 147 does not fire.  Every   *)
(* exception is caught on line 163 and turned into None.                   *)
(***************************************************************************)
\* the union returned as it is, a lone Polygon not wrapped
process_geometries_unwrapped(geojson_data) ==
    LET features == geojson_data.features
    IN IF \E i \in DOMAIN features : shape_raises(features[i].geometry) THEN ReturnedNone
       ELSE IF Len(features) = 0 THEN ReturnedNone
       ELSE Returned(unary_union({shape(features[i].geometry) : i \in DOMAIN features}))

process_geometries(geojson_data) ==
    LET features == geojson_data.features
    IN IF \E i \in DOMAIN features : shape_raises(features[i].geometry) THEN ReturnedNone
       ELSE LET geometries == {shape(features[i].geometry) : i \in DOMAIN features}
            IN IF Len(features) = 0 THEN ReturnedNone
               ELSE LET combined == unary_union(geometries)
                    IN IF combined.geom_type = "Polygon"
                       THEN Returned(MultiPolygon({combined}))
                       ELSE Returned(combined)

(***************************************************************************)
(* Inputs of the geometry stage.                                           *)
(***************************************************************************)
Intervals == {a .. b : a \in 1 .. GridLen, b \in 1 .. GridLen} \ {{}}
GeometryPayloads ==
    {Polygon(cells) : cells \in Intervals}
        \cup {Point(c, 0) : c \in 1 .. GridLen}
        \cup {MalformedGeometry}
GeometryFeatures == {Feature(g, "dict", EmptyDict) : g \in GeometryPayloads}
GeometryCollections ==
    {FeatureCollection(fs) : fs \in SeqsUpTo(GeometryFeatures, MaxGeoms)}

(***************************************************************************)
(* detect_file_type (lines 11-34).  An uploaded file is its bytes: what    *)
(* json.loads makes of them (json, a str Document), whether                *)
(* pd.read_csv(nrows=1) can read the head (head_ok), whether pd.read_csv   *)
(* can read the whole file (body_ok), and the DataFrame it then yields.    *)
(***************************************************************************)
UploadedFile(json, head_ok, body_ok, frame) ==
    [json |-> json, head_ok |-> head_ok, body_ok |-> body_ok, frame |-> frame]

detect_file_type(file) ==
    IF file.json.text = "dict" /\ file.json.hasType /\ file.json.hasFeatures THEN "geojson"
    ELSE IF file.head_ok THEN "csv"
    ELSE "unknown"

\* json.load(uploaded_file): the parsed value of the bytes
json_load(file) ==
    Document(file.json.text, "", file.json.hasType, file.json.hasFeatures,
             file.json.type, file.json.features)

(***************************************************************************)
(* get_property_values (lines 36-42): the stringified values, or the       *)
(* TypeError of `property_name in None`.                                   *)
(***************************************************************************)
get_property_values_raises(geojson_data) ==
    \E i \in DOMAIN geojson_data.features : geojson_data.features[i].pk = "null"

get_property_values(geojson_data, property_name) ==
    {PyStr(geojson_data.features[i].props[property_name]) :
        i \in {j \in DOMAIN geojson_data.features :
                  /\ geojson_data.features[j].pk = "dict"
                  /\ property_name \in DOMAIN geojson_data.features[j].props}}

(***************************************************************************)
(* main (lines 199-377), one run of the script.  st.session_state outlives *)
(* the run.  run.assigned records that line 240, 274 or 320 stored         *)
(* current_geojson during the run (history, not program state).           *)
(***************************************************************************)
NoneValue == [type |-> "None", features |-> <<>>]
truthy(v) == v # NoneValue

Session(current_geojson) ==
    [initialized |-> TRUE, current_geojson |-> current_geojson, filters |-> EmptyDict]

\* lines 221-225
session_defaults(s) == IF s.initialized THEN s ELSE Session(NoneValue)

\* lines 301-309: the rows whose cell is among the values selected for each
\* filter column; a column with nothing selected does not filter
filter_rows(frame, selection) ==
    DataFrame(frame.columns,
              SelectSeq(frame.rows,
                        LAMBDA row : \A col \in DOMAIN selection :
                            selection[col] = {} \/ row[col] \in selection[col]))

\* lines 231-279: the session after the GeoJSON branch and whether the run
\* returned on line 238.  ui.filters stands for the two multiselects.
geojson_branch(s, file, ui) ==
    LET geojson_data == json_load(file)
        collection == [type |-> geojson_data.type, features |-> geojson_data.features]
        loaded == [session |-> Session(collection), returned |-> FALSE, assigned |-> TRUE]
        first == collection.features[1]
    IN IF ~validate_geojson(geojson_data)[1]
       THEN [session |-> s, returned |-> TRUE, assigned |-> FALSE]
       ELSE IF first.pk # "dict" THEN loaded
       ELSE IF DOMAIN ui.filters # {} /\ get_property_values_raises(collection) THEN loaded
       ELSE LET filtered == filter_geojson(collection, ui.filters)
            IN IF filtered.kind = "raised" THEN loaded
               ELSE [loaded EXCEPT !.session = Session(filtered.val)]

\* lines 281-330
csv_branch(s, file, ui) ==
    IF ~file.body_ok THEN [session |-> s, returned |-> FALSE, assigned |-> FALSE]
    ELSE LET frame == filter_rows(file.frame, ui.selection)
         IN IF ~validate_csv_coordinates(frame, ui.lat_col, ui.lon_col)[1]
            THEN [session |-> s, returned |-> TRUE, assigned |-> FALSE]
            ELSE LET geojson_result == csv_to_geojson(frame, ui.lat_col, ui.lon_col)
                 IN IF geojson_result.kind = "value"
                    THEN [session |-> Session(geojson_result.val), returned |-> FALSE,
                          assigned |-> TRUE]
                    ELSE [session |-> s, returned |-> FALSE, assigned |-> FALSE]

NoRun ==
    [file_type |-> "", assigned |-> FALSE, displayed |-> FALSE, pressed |-> FALSE,
     combined |-> ReturnedNone]

\* the whole run: the session it leaves and what it displayed and combined
main(s0, uploaded, file, ui, button) ==
    LET s == session_defaults(s0)
        file_type == IF uploaded THEN detect_file_type(file) ELSE ""
        branch ==
            CASE file_type = "geojson" -> geojson_branch(s, file, ui)
              [] file_type = "csv" -> csv_branch(s, file, ui)
              [] OTHER -> [session |-> s, returned |-> TRUE, assigned |-> FALSE]
        displayed == ~branch.returned /\ truthy(branch.session.current_geojson)
        combined ==
            IF displayed /\ button THEN process_geometries(branch.session.current_geojson)
            ELSE ReturnedNone
    IN [session |-> branch.session,
        run |-> [file_type |-> file_type, assigned |-> branch.assigned,
                 displayed |-> displayed, pressed |-> displayed /\ button,
                 combined |-> combined]]

(***************************************************************************)
(* Inputs of main: the uploads and what the user selects in the widgets.   *)
(***************************************************************************)
UploadFeatures ==
    {Feature(Polygon({1}), "dict", [k \in {"category"} |-> Str("A")]),
     Feature(Point(3, 0), "dict", [k \in {"category"} |-> Null]),
     Feature(Polygon({2}), "absent", EmptyDict),
     Feature(MalformedGeometry, "null", EmptyDict)}

UploadRows ==
    {[c \in Columns |-> IF c = "name" THEN Str("X") ELSE Str("45")],
     [c \in Columns |-> IF c = "name" THEN Null ELSE IF c = "lat" THEN Str("abc") ELSE Num(181)]}

NotJson == Document("str", "invalid", FALSE, FALSE, "", <<>>)
NoFrame == DataFrame(Columns, <<>>)

GeojsonUploads ==
    {UploadedFile(Document("str", "dict", TRUE, TRUE, ty, fs), TRUE, TRUE, NoFrame) :
        ty \in {"FeatureCollection", "Feature"}, fs \in SeqsUpTo(UploadFeatures, MaxFeatures)}
CsvUploads ==
    {UploadedFile(NotJson, TRUE, TRUE, DataFrame(Columns, rows)) :
        rows \in SeqsUpTo(UploadRows, MaxRows)}
        \cup {UploadedFile(NotJson, TRUE, FALSE, NoFrame)}
UnknownUploads == {UploadedFile(NotJson, FALSE, FALSE, NoFrame)}
Uploads == GeojsonUploads \cup CsvUploads \cup UnknownUploads
\* uploaded_file is None
NoUpload == UploadedFile(Document("NoneType", "", FALSE, FALSE, "", <<>>), FALSE, FALSE, NoFrame)

NoUi == [filters |-> EmptyDict, lat_col |-> "", lon_col |-> "", selection |-> EmptyDict]

\* lines 249-270: properties of the first feature, and for each selected
\* one some of its values
GeojsonUi(file) ==
    LET fs == file.json.features
        keys == IF Len(fs) > 0 /\ fs[1].pk = "dict" THEN DOMAIN fs[1].props ELSE {}
        collection == FeatureCollection(fs)
    IN {[NoUi EXCEPT !.filters = f] :
            f \in {g \in Dicts(keys, SUBSET {"A", "None"}) :
                      \A k \in DOMAIN g : g[k] \subseteq get_property_values(collection, k)}}

\* lines 291-307: two columns of the frame, and for some of the other
\* columns some of their values
unique(frame, col) == {frame.rows[i][col] : i \in DOMAIN frame.rows}

\* a selection the loop on lines 301-309 can be given: some order of its
\* columns in which each column's values are among those the rows left by
\* the columns before it still hold
RECURSIVE Selectable(_, _)
Selectable(frame, selection) ==
    \/ DOMAIN selection = {}
    \/ \E col \in DOMAIN selection :
          /\ selection[col] \subseteq unique(frame, col)
          /\ Selectable(filter_rows(frame, [c \in {col} |-> selection[col]]),
                        [c \in DOMAIN selection \ {col} |-> selection[c]])

CsvUi(file) ==
    UNION {{[NoUi EXCEPT !.lat_col = a, !.lon_col = o, !.selection = sel] :
               sel \in {g \in Dicts(file.frame.columns \ {a, o},
                                    SUBSET (CoordinateCells \cup NameCells)) :
                           Selectable(file.frame, g)}} :
           a \in file.frame.columns, o \in file.frame.columns}

Ui(file) ==
    CASE detect_file_type(file) = "geojson" -> GeojsonUi(file)
      [] detect_file_type(file) = "csv" -> CsvUi(file)
      [] OTHER -> {NoUi}

(***************************************************************************)
(* The state machine.                                                      *)
(***************************************************************************)
NoCall == [op |-> "none"]

\* A behaviour of the stages is one call of one stage by an outside caller.
Fresh == res = NoCall

Init ==
    /\ res = NoCall
    /\ df = NoFrame
    /\ session = [initialized |-> FALSE, current_geojson |-> NoneValue, filters |-> EmptyDict]
    /\ run = NoRun

FilterCall ==
    /\ Fresh
    /\ \E fc \in FilterCollections, f \in FilterSpecs :
        /\ res' = [op |-> "filter_geojson", geojson_data |-> fc, filters |-> f,
                   same |-> filter_returns_argument(f),
                   ret |-> filter_geojson(fc, f)]
        /\ UNCHANGED <<df, session, run>>

ValidateGeojsonCall ==
    /\ Fresh
    /\ \E d \in Documents :
        /\ res' = [op |-> "validate_geojson", geojson_data |-> d,
                   ret |-> Returned(validate_geojson(d))]
        /\ UNCHANGED <<df, session, run>>

ValidateCsvCall ==
    /\ Fresh
    /\ \E d \in DataFrames, lat_col \in ColumnChoices, lon_col \in ColumnChoices :
        /\ res' = [op |-> "validate_csv_coordinates", df |-> d,
                   lat_col |-> lat_col, lon_col |-> lon_col,
                   ret |-> Returned(validate_csv_coordinates(d, lat_col, lon_col))]
        /\ df' = d
        /\ UNCHANGED <<session, run>>

CsvToGeojsonCall ==
    /\ Fresh
    /\ \E d \in DataFrames, lat_col \in ColumnChoices, lon_col \in ColumnChoices :
        /\ res' = [op |-> "csv_to_geojson", df |-> d,
                   lat_col |-> lat_col, lon_col |-> lon_col,
                   ret |-> csv_to_geojson(d, lat_col, lon_col)]
        /\ df' = csv_frame_after(d, lat_col, lon_col)
        /\ UNCHANGED <<session, run>>

ProcessGeometriesCall ==
    /\ Fresh
    /\ \E fc \in GeometryCollections :
        /\ res' = [op |-> "process_geometries", geojson_data |-> fc,
                   ret |-> process_geometries(fc)]
        /\ UNCHANGED <<df, session, run>>

MainRun ==
    /\ res = NoCall
    /\ \E file \in Uploads \cup {NoUpload} :
         \E ui \in Ui(file), button \in BOOLEAN :
            LET r == main(session, file # NoUpload, file, ui, button)
            IN session' = r.session /\ run' = r.run
    /\ UNCHANGED <<res, df>>

Next ==
    \/ ProcessGeometriesCall
    \/ FilterCall
    \/ ValidateGeojsonCall
    \/ ValidateCsvCall
    \/ CsvToGeojsonCall

\* one call of one stage
Spec == Init /\ [][Next]_vars

\* a session of runs of main()
SpecMain == Init /\ [][MainRun]_vars

(***************************************************************************)
(* Properties.                                                             *)
(***************************************************************************)
Called(op) == res.op = op
AllWellFormed(features) == \A i \in DOMAIN features : WellFormed(features[i])

\* a feature satisfies every property of the FilterSpec that has a
\* non-empty value set
Satisfies(feature, filters) ==
    \A prop \in DOMAIN filters :
        filters[prop] # {} =>
            /\ prop \in DOMAIN feature.props
            /\ PyStr(feature.props[prop]) \in filters[prop]

\* C1: filter_geojson keeps exactly the features (each with a properties
\* mapping) that have every actively filtered property with its stringified
\* value in the value set, in input order; the result is never longer than
\* the input.
C1_FilterKeepsExactlyMatching ==
    (Called("filter_geojson") /\ AllWellFormed(res.geojson_data.features)) =>
        /\ res.ret.kind = "value"
        /\ res.ret.val.type = "FeatureCollection"
        /\ res.ret.val.features =
               SelectSeq(res.geojson_data.features, LAMBDA f : Satisfies(f, res.filters))
        /\ Len(res.ret.val.features) <= Len(res.geojson_data.features)

\* two active properties; one feature is kept, one lacks a property and is dropped
C1_Witness ==
    /\ Called("filter_geojson")
    /\ AllWellFormed(res.geojson_data.features)
    /\ DOMAIN res.filters = PropKeys
    /\ \A p \in PropKeys : res.filters[p] # {}
    /\ Len(res.geojson_data.features) = 2
    /\ "kind" \notin DOMAIN res.geojson_data.features[1].props
    /\ res.ret.kind = "value"
    /\ res.ret.val.features = <<res.geojson_data.features[2]>>

\* the numeric values of a column all lie in [lo, hi]
NumericInRange(d, col, lo, hi) ==
    \A i \in DOMAIN d.rows :
        notnull(to_numeric(d.rows[i][col])) =>
            (lo <= to_numeric(d.rows[i][col]).n /\ to_numeric(d.rows[i][col]).n <= hi)
HasNumeric(d, col) == \E i \in DOMAIN d.rows : notnull(to_numeric(d.rows[i][col]))

\* C2: cells that fail numeric coercion are left out of the range check, so
\* a dataset whose numeric latitudes and longitudes are all in range is
\* valid.
C2_NonNumericExcludedFromRange ==
    (/\ Called("validate_csv_coordinates")
     /\ res.lat_col \in res.df.columns /\ res.lon_col \in res.df.columns
     /\ HasNumeric(res.df, res.lat_col) /\ HasNumeric(res.df, res.lon_col)
     /\ NumericInRange(res.df, res.lat_col, -90, 90)
     /\ NumericInRange(res.df, res.lon_col, -180, 180))
        => res.ret.val = <<TRUE, MsgCoordinates>>

\* C3 as stated: every non-mapping document gets the missing-fields message.
C3_NonMappingIsMissingFields ==
    (Called("validate_geojson") /\ res.geojson_data.py # "dict") =>
        res.ret.val = <<FALSE, MsgMissing>>

\* C3 amended: an array, a number or null is rejected with the message of
\* the TypeError json.loads raises; a string is parsed as JSON text and the
\* parsed value decides, so the text of a mapping gets the verdict of that
\* mapping, and the missing-fields message is given only for text whose
\* value is a mapping, array or string without 'type' or 'features'.
C3_NonMappingIsParsed ==
    (Called("validate_geojson") /\ res.geojson_data.py # "dict") =>
        LET d == res.geojson_data
        IN /\ d.py \in {"list", "int", "NoneType"} =>
                res.ret.val = <<FALSE, "Invalid GeoJSON: the JSON object must be str, bytes or bytearray, not " \o d.py>>
           /\ (d.py = "str" /\ d.text = "dict") =>
                res.ret.val = validate_geojson([d EXCEPT !.py = "dict", !.text = ""])
           /\ res.ret.val[2] = MsgMissing <=>
                (/\ d.py = "str"
                 /\ d.text \in {"dict", "list", "str"}
                 /\ ~(d.hasType /\ d.hasFeatures))

\* an array is rejected with the message of the TypeError, not the
\* missing-fields message
C3_Witness ==
    /\ Called("validate_geojson")
    /\ res.geojson_data.py = "list"
    /\ res.ret.val[1] = FALSE
    /\ res.ret.val[2] # MsgMissing

\* C4: a stage leaves the dataset it was passed as it was.
C4_InputNotMutated ==
    Called("csv_to_geojson") => df = res.df

\* C5: no stage raises to its caller.
C5_NoFaultEscapes ==
    res.op # "none" => res.ret.kind # "raised"

\* C6: for a mapping the checks run in order and the first failure decides.
C6_ValidateOrder ==
    (Called("validate_geojson") /\ res.geojson_data.py = "dict") =>
        LET d == res.geojson_data
        IN res.ret.val =
            IF ~d.hasType \/ ~d.hasFeatures THEN <<FALSE, MsgMissing>>
            ELSE IF d.type # "FeatureCollection" THEN <<FALSE, MsgRootType>>
            ELSE IF d.features = <<>> THEN <<FALSE, MsgNoFeatures>>
            ELSE <<TRUE, MsgValid>>

\* a wrong root type together with no features: the root type is reported
C6_Witness ==
    /\ Called("validate_geojson")
    /\ res.geojson_data.py = "dict"
    /\ res.geojson_data.hasType /\ res.geojson_data.hasFeatures
    /\ res.geojson_data.type # "FeatureCollection"
    /\ res.geojson_data.features = <<>>
    /\ res.ret.val = <<FALSE, MsgRootType>>

\* the rows of the dataset as passed whose two coordinates are numeric
Survivors(d, lat_col, lon_col) ==
    SelectSeq(d.rows, LAMBDA row :
        notnull(to_numeric(row[lat_col])) /\ notnull(to_numeric(row[lon_col])))

\* C7: with both columns in the dataset, the features are the rows with two
\* numeric coordinates, one to one and in order, each a Point (longitude,
\* latitude) with every other column stringified or null; None when no row
\* survives.
C7_CsvRowsToPoints ==
    (/\ Called("csv_to_geojson")
     /\ res.lat_col \in res.df.columns /\ res.lon_col \in res.df.columns) =>
        LET rows == Survivors(res.df, res.lat_col, res.lon_col)
        IN IF rows = <<>> THEN res.ret.kind = "none"
           ELSE /\ res.ret.kind = "value"
                /\ res.ret.val.type = "FeatureCollection"
                /\ Len(res.ret.val.features) = Len(rows)
                /\ \A i \in DOMAIN rows :
                     LET f == res.ret.val.features[i]
                     IN /\ f.type = "Feature"
                        /\ f.geometry.type = "Point"
                        /\ f.geometry.coordinates =
                              <<to_numeric(rows[i][res.lon_col]).n,
                                to_numeric(rows[i][res.lat_col]).n>>
                        /\ f.pk = "dict"
                        /\ DOMAIN f.props = res.df.columns \ {res.lat_col, res.lon_col}
                        /\ \A k \in DOMAIN f.props :
                             f.props[k] = IF rows[i][k] = Null THEN Null
                                          ELSE Str(PyStr(rows[i][k]))

\* a row is dropped, the one that follows it survives with longitude 45 and
\* latitude 181 apart, and its missing name stays null
C7_Witness ==
    /\ Called("csv_to_geojson")
    /\ res.lat_col = "lat" /\ res.lon_col = "lon"
    /\ Len(res.df.rows) = 2
    /\ res.df.rows[1]["lat"] = Str("abc")
    /\ res.df.rows[2] = [c \in Columns |->
            IF c = "lat" THEN Str("45") ELSE IF c = "lon" THEN Num(181) ELSE Null]
    /\ res.ret.kind = "value"
    /\ Len(res.ret.val.features) = 1
    /\ res.ret.val.features[1].geometry.coordinates = <<181, 45>>
    /\ res.ret.val.features[1].props["name"] = Null

\* C8: with an empty FilterSpec the result holds the input's features in
\* the input's order, and filtering the result again changes nothing.
C8_EmptyFilterIsIdentity ==
    (Called("filter_geojson") /\ DOMAIN res.filters = {}) =>
        /\ res.ret.kind = "value"
        /\ res.ret.val.features = res.geojson_data.features
        /\ filter_geojson(res.ret.val, res.filters) = res.ret

C8_Witness ==
    /\ Called("filter_geojson")
    /\ DOMAIN res.filters = {}
    /\ Len(res.geojson_data.features) = 2
    /\ res.geojson_data.features[1] # res.geojson_data.features[2]
    /\ res.ret.kind = "value"
    /\ res.ret.val.features = res.geojson_data.features

C10_DisplayedIsFromThisRun ==
    run.displayed => run.assigned

====
